---- MODULE Spec2Model ----
(***************************************************************************)
(* UndeliveredPayloadQueue (packages/delivery-expo/queue.js): a FIFO queue *)
(* of undelivered payloads kept as files of one directory.                 *)
(*                                                                         *)
(* The directory is the durable state.  Every FileSystem call of the code  *)
(* is one step (the moment the call takes effect on the directory); the    *)
(* code that runs when the awaited call resolves is folded into that step  *)
(* unless it reads or writes this._truncating, in which case it is a step  *)
(* of its own.  A FileSystem call may fail (the promise rejects) as long   *)
(* as the fault budget of the behaviour allows it.                         *)
(***************************************************************************)
EXTENDS Integers, Sequences, FiniteSets, TLC

\* ------------------------------------------------------------------ bounds
MAX_ITEMS == 64

MaxCalls == 2
MaxTicks == 1
MaxUid == 1
MaxFaults == 2
MaxSmallStore == 2
MaxPeekDepth == 3
MaxRetries == 2
MaxPeeks == 2
DrainFaults == 1
DrainPeeks == 1
PassCalls == 2
PassFaults == 1

\* -------------------------------------------------------------- file names
\* A file name of the queue is bugsnag-<resource>-<ISO timestamp>-<uid>.json.
\* The resource is fixed per queue, the ISO timestamp and the uid have a
\* fixed width, so the order of two such names as strings is the order of
\* <<timestamp, uid>>.  Any other file of the directory has kind "other".
NoName == <<"none", 0, 0>>

\* the random digits of a name
uid == 0..MaxUid

generateFilename(ts, u) == <<"bugsnag", ts, u>>

filenameRe(f) == f[1] = "bugsnag"

\* String comparison of two names of the queue, as Array.prototype.sort uses.
FilenameLess(a, b) ==
    \/ a[2] < b[2]
    \/ a[2] = b[2] /\ a[3] < b[3]

\* A sorted array of names is modelled by the set of its names: the name at
\* index i is the one that has exactly i names of the set before it.
\* payloads.filter(f => filenameRe.test(f)).sort()
SortedPayloads(listing) == {f \in listing : filenameRe(f)}

\* array.length
Length(S) == Cardinality(S)

\* First taking the other end of the array
FirstFromEnd(S) == CHOOSE a \in S : \A b \in S : ~FilenameLess(a, b)

\* array[0] of a sorted array that is not empty
First(S) == CHOOSE a \in S : \A b \in S : ~FilenameLess(b, a)

\* the index of name a in the sorted array
Before(S, a) == Cardinality({b \in S : FilenameLess(b, a)})

\* array.slice(0, n), as the set of its names (empty when n <= 0)
Slice(S, n) == IF n <= 0 THEN {} ELSE {a \in S : Before(S, a) < n}

\* ------------------------------------------------------------------ records
\* The text of a file is either JSON.stringify of a record, modelled as the
\* pair <<body, retries>>, or text JSON.parse throws on.
Corrupt == <<"corrupt">>

Stringify(rec) == <<rec.body, rec.retries>>

Parses(text) == Len(text) = 2

Parse(text) == [body |-> text[1], retries |-> text[2]]

\* Merge with the spreads in the other order: { ...b, ...a }
MergeReversed(a, b) ==
    [k \in DOMAIN a \cup DOMAIN b |-> IF k \in DOMAIN a THEN a[k] ELSE b[k]]

\* { ...a, ...b }: the keys of b replace those of a
Merge(a, b) == [k \in DOMAIN a \cup DOMAIN b |-> IF k \in DOMAIN b THEN b[k] ELSE a[k]]

\* -------------------------------------------------------------------- state
VARIABLES
    files,        \* the directory this._path: file name -> text of the file
    dirExists,    \* whether the directory this._path exists
    now,          \* the clock new Date() reads, in milliseconds
    truncating,   \* this._truncating
    calls,        \* the enqueue calls: call number -> its position and locals
    client,       \* the caller of peek, remove and update: position and locals
    faultsLeft,   \* how many more FileSystem calls may reject
    ticksLeft,    \* how many more milliseconds the clock may advance
    crashed,      \* whether the process has been restarted
    peeksLeft,    \* how many more times the caller may call peek
    assigned,     \* the names generateFilename returned, in the order returned
    deletions,    \* the deletions that took effect: <<name, by whom, why, valid>>
    settled,      \* the names remove or update has been called with
    failures      \* name -> the RetryableFailure outcomes the drain loop handled

vars == <<files, dirExists, now, truncating, calls, client, faultsLeft,
          ticksLeft, crashed, peeksLeft, assigned, deletions, settled, failures>>

CallIds == DOMAIN calls

\* ------------------------------------------------------------ the FileSystem
\* The outcomes a FileSystem call may have: TRUE, or FALSE (it rejects) while
\* the behaviour's fault budget lasts.
Outcomes == IF faultsLeft > 0 THEN {TRUE, FALSE} ELSE {TRUE}

Spend(ok) == faultsLeft' = IF ok THEN faultsLeft ELSE faultsLeft - 1

\* FileSystem.writeAsStringAsync(name, text): creates or replaces the file
WriteFile(name, text) ==
    [f \in DOMAIN files \cup {name} |-> IF f = name THEN text ELSE files[f]]

\* FileSystem.deleteAsync(name), of a file that exists
DeleteFile(name) == [f \in DOMAIN files \ {name} |-> files[f]]

\* FileSystem.readDirectoryAsync(this._path): the names in the directory
Listing == DOMAIN files

\* the names of the queue's payload files, oldest name first
Queue == SortedPayloads(Listing)

\* this.remove(id): FileSystem.deleteAsync(id) rejects when the file does not
\* exist (no idempotent option is passed) or when the call fails; remove
\* catches the rejection and hands it to this._onerror.
removeDeletes(name, ok) == ok /\ name \in DOMAIN files

removeFiles(name, ok) == IF removeDeletes(name, ok) THEN DeleteFile(name) ELSE files

\* removeErrors of a remove that swallows the rejection
removeErrorsSwallowed(name, ok) == 0

removeErrors(name, ok) == IF removeDeletes(name, ok) THEN 0 ELSE 1

\* the record of a deletion: the name, the caller of remove, its reason and
\* whether the text deleted was a well-formed record
Deleted(name, ok, by, why) ==
    IF removeDeletes(name, ok)
    THEN deletions \cup {<<name, by, why, Parses(files[name])>>}
    ELSE deletions

\* ------------------------------------------------------------- enqueue(req)
\* Positions of an enqueue call:
\*   new      not called yet
\*   info     init(): getInfoAsync pending
\*   mkdir    init(): makeDirectoryAsync pending, the directory not made yet
\*   made     init(): makeDirectoryAsync has made the directory, its promise
\*            has not settled yet
\*   write    writeAsStringAsync pending
\*   wrote    the write resolved, this._truncate() not called yet
\*   tlist    _truncate: readDirectoryAsync pending (enqueue has returned)
\*   tlisted  _truncate: the listing resolved, the rest has not run yet
\*   tfailed  _truncate: the listing rejected, the catch has not run yet
\*   tremove  _truncate: Promise.all of the removes pending
\*   done     returned, nothing pending
\*   dead     was in flight when the process ended
\* errs counts the calls of this._onerror made for the call, fails the
\* FileSystem calls of the call that rejected; returned tells whether the
\* promise enqueue returned has resolved, skipped whether its call of
\* this._truncate() returned at the guard.
NewCall == [pc |-> "new", name |-> NoName, text |-> <<>>, written |-> FALSE,
            snap |-> {}, pending |-> {}, errs |-> 0, fails |-> 0,
            returned |-> FALSE, skipped |-> FALSE]

\* the requests call c may pass: its body, with or without a retries key
Reqs(c) == {[body |-> c], [body |-> c, retries |-> 1]}

CallSet(c, r) == calls' = [calls EXCEPT ![c] = r]

\* enqueue(req) is called: init() issues getInfoAsync.  The text to write,
\* JSON.stringify({ ...req, retries: 0 }), depends on req alone.
enqueue(c) ==
    /\ calls[c].pc = "new"
    /\ \A d \in CallIds : d < c => calls[d].pc # "new"
    /\ \E req \in Reqs(c) :
         CallSet(c, [calls[c] EXCEPT !.pc = "info",
                                     !.text = Stringify(Merge(req, [retries |-> 0]))])
    /\ UNCHANGED <<files, dirExists, now, truncating, client, faultsLeft,
                   ticksLeft, crashed, assigned, deletions, peeksLeft, settled, failures>>

\* the number (0 or 1) of rejections of a deleteAsync(name)
Rejections(name, ok) == IF removeDeletes(name, ok) THEN 0 ELSE 1

\* EnqueueCatch with an empty catch block
EnqueueCatchSilent(c) ==
    CallSet(c, [calls[c] EXCEPT !.pc = "done", !.fails = @ + 1, !.returned = TRUE])

\* a FileSystem call of enqueue rejected; the catch of enqueue:
\* this._onerror(e)
EnqueueCatch(c) ==
    CallSet(c, [calls[c] EXCEPT !.pc = "done", !.fails = @ + 1, !.errs = @ + 1,
                                !.returned = TRUE])

\* the write is issued to `${this._path}/${generateFilename(this._resource)}`
IssueWrite(c) ==
    \E u \in uid :
        /\ CallSet(c, [calls[c] EXCEPT !.pc = "write", !.name = generateFilename(now, u)])
        /\ assigned' = Append(assigned, generateFilename(now, u))

\* init(): getInfoAsync resolves or rejects
init(c) ==
    /\ calls[c].pc = "info"
    /\ \E ok \in Outcomes :
        /\ Spend(ok)
        /\ IF ~ok THEN EnqueueCatch(c) /\ UNCHANGED assigned
           ELSE IF dirExists THEN IssueWrite(c)
           ELSE CallSet(c, [calls[c] EXCEPT !.pc = "mkdir"]) /\ UNCHANGED assigned
    /\ UNCHANGED <<files, dirExists, now, truncating, client, ticksLeft,
                   crashed, deletions, peeksLeft, settled, failures>>

\* init(): makeDirectoryAsync makes the directory, which every getInfoAsync
\* sees from then on, or rejects.  The code after the await runs later, in
\* enqueueResume.
makeDirectory(c) ==
    /\ calls[c].pc = "mkdir"
    /\ \E ok \in Outcomes :
        /\ Spend(ok)
        /\ IF ok THEN dirExists' = TRUE /\ CallSet(c, [calls[c] EXCEPT !.pc = "made"])
           ELSE EnqueueCatch(c) /\ UNCHANGED dirExists
    /\ UNCHANGED <<files, now, truncating, client, ticksLeft, crashed, assigned,
                   deletions, peeksLeft, settled, failures>>

\* the promise of makeDirectoryAsync settles, init() returns and enqueue goes
\* on after `await this.init()`: the clock is read now, the write is issued
enqueueResume(c) ==
    /\ calls[c].pc = "made"
    /\ IssueWrite(c)
    /\ UNCHANGED <<files, dirExists, now, truncating, client, faultsLeft, ticksLeft,
                   crashed, deletions, peeksLeft, settled, failures>>

\* writeAsStringAsync resolves or rejects
enqueueWrite(c) ==
    /\ calls[c].pc = "write"
    /\ \E ok \in Outcomes :
        /\ Spend(ok)
        /\ IF ok /\ dirExists
           THEN /\ files' = WriteFile(calls[c].name, calls[c].text)
                /\ CallSet(c, [calls[c] EXCEPT !.pc = "wrote", !.written = TRUE])
           ELSE EnqueueCatch(c) /\ UNCHANGED files
    /\ UNCHANGED <<dirExists, now, truncating, client, ticksLeft, crashed,
                   assigned, deletions, peeksLeft, settled, failures>>

\* ---------------------------------------------------------------- _truncate
\* this._truncate() is called by enqueue, which does not await it: the guard
\* is read and set, readDirectoryAsync is issued, enqueue returns.
\* truncateEnter of an enqueue that awaits this._truncate()
truncateEnterAwaited(c) ==
    IF truncating
    THEN /\ CallSet(c, [calls[c] EXCEPT !.pc = "done", !.returned = TRUE,
                                         !.skipped = TRUE])
         /\ UNCHANGED truncating
    ELSE /\ truncating' = TRUE
         /\ CallSet(c, [calls[c] EXCEPT !.pc = "tlist"])

\* truncateEnter without the check of this._truncating
truncateEnterUnguarded(c) ==
    /\ truncating' = TRUE
    /\ CallSet(c, [calls[c] EXCEPT !.pc = "tlist", !.returned = TRUE])

truncateEnter(c) ==
    IF truncating
    THEN /\ CallSet(c, [calls[c] EXCEPT !.pc = "done", !.returned = TRUE,
                                         !.skipped = TRUE])
         /\ UNCHANGED truncating
    ELSE /\ truncating' = TRUE
         /\ CallSet(c, [calls[c] EXCEPT !.pc = "tlist", !.returned = TRUE])

truncateCall(c) ==
    /\ calls[c].pc = "wrote"
    /\ truncateEnter(c)
    /\ UNCHANGED <<files, dirExists, now, client, faultsLeft, ticksLeft,
                   crashed, assigned, deletions, peeksLeft, settled, failures>>

\* readDirectoryAsync resolves with the names in the directory, or rejects
truncateList(c) ==
    /\ calls[c].pc = "tlist"
    /\ \E ok \in Outcomes :
        /\ Spend(ok)
        /\ IF ok /\ dirExists
           THEN CallSet(c, [calls[c] EXCEPT !.pc = "tlisted", !.snap = Listing])
           ELSE CallSet(c, [calls[c] EXCEPT !.pc = "tfailed", !.fails = @ + 1])
    /\ UNCHANGED <<files, dirExists, now, truncating, client, ticksLeft,
                   crashed, assigned, deletions, peeksLeft, settled, failures>>

\* Overflow with the slice one name too long
OverflowOneMore(snap) ==
    LET payloads == SortedPayloads(snap)
        diff == Length(payloads) - MAX_ITEMS
    IN  Slice(payloads, diff + 1)

\* payloads.slice(0, diff) of the sorted listing: the names to remove
Overflow(snap) ==
    LET payloads == SortedPayloads(snap)
        diff == Length(payloads) - MAX_ITEMS
    IN  Slice(payloads, diff)

\* whether the pass returns early ("do nothing if within the limit")
WithinLimit(snap) == Length(SortedPayloads(snap)) - MAX_ITEMS < 0

\* the code after the listing resolved: up to the Promise.all of the removes
truncateResume(c) ==
    /\ calls[c].pc = "tlisted"
    /\ IF WithinLimit(calls[c].snap)
       THEN /\ truncating' = FALSE
            /\ CallSet(c, [calls[c] EXCEPT !.pc = "done", !.snap = {}])
       ELSE /\ CallSet(c, [calls[c] EXCEPT !.pc = "tremove",
                                           !.pending = Overflow(calls[c].snap)])
            /\ UNCHANGED truncating
    /\ UNCHANGED <<files, dirExists, now, client, faultsLeft, ticksLeft,
                   crashed, assigned, deletions, peeksLeft, settled, failures>>

\* truncateCatch that leaves this._truncating set
truncateCatchWedged(c) ==
    /\ calls[c].pc = "tfailed"
    /\ CallSet(c, [calls[c] EXCEPT !.pc = "done", !.errs = @ + 1])
    /\ UNCHANGED <<files, dirExists, now, client, faultsLeft, ticksLeft, truncating,
                   crashed, assigned, deletions, peeksLeft, settled, failures>>

\* the catch of _truncate, after the listing rejected
truncateCatch(c) ==
    /\ calls[c].pc = "tfailed"
    /\ truncating' = FALSE
    /\ CallSet(c, [calls[c] EXCEPT !.pc = "done", !.errs = @ + 1])
    /\ UNCHANGED <<files, dirExists, now, client, faultsLeft, ticksLeft,
                   crashed, assigned, deletions, peeksLeft, settled, failures>>

\* where name f stands in the listing of a pass: "overflow" when at least
\* MAX_ITEMS payload names of the listing sort after it, else "within"
Position(snap, f) ==
    IF Cardinality({g \in SortedPayloads(snap) : FilenameLess(f, g)}) >= MAX_ITEMS
    THEN "overflow" ELSE "within"

\* one this.remove(`${this._path}/${f}`) of the Promise.all takes effect
truncateRemove(c) ==
    /\ calls[c].pc = "tremove"
    /\ \E f \in calls[c].pending, ok \in Outcomes :
        /\ Spend(ok)
        /\ files' = removeFiles(f, ok)
        /\ deletions' = Deleted(f, ok, "truncate", Position(calls[c].snap, f))
        /\ CallSet(c, [calls[c] EXCEPT !.pending = @ \ {f},
                                       !.fails = @ + Rejections(f, ok),
                                       !.errs = @ + removeErrors(f, ok)])
    /\ UNCHANGED <<dirExists, now, truncating, client, ticksLeft, crashed, assigned, peeksLeft, settled, failures>>

\* Promise.all resolved: the guard is released
truncateDone(c) ==
    /\ calls[c].pc = "tremove"
    /\ calls[c].pending = {}
    /\ truncating' = FALSE
    /\ CallSet(c, [calls[c] EXCEPT !.pc = "done", !.snap = {}])
    /\ UNCHANGED <<files, dirExists, now, client, faultsLeft, ticksLeft,
                   crashed, assigned, deletions, peeksLeft, settled, failures>>

\* ------------------------------------------------------------------- peek()
\* Positions of the caller of peek, remove and update:
\*   idle    no call pending; last and result describe the call that returned
\*   plist   peek: readDirectoryAsync pending
\*   pread   peek: readAsStringAsync(id) pending
\*   pheal   peek: the remove(id) of the inner catch pending
\*   rdel    remove: deleteAsync(id) pending
\*   uread   update: readAsStringAsync(id) pending
\*   uwrite  update: writeAsStringAsync(id, ...) pending
\*   iinfo   init, called directly: getInfoAsync pending
\*   imkdir  init, called directly: makeDirectoryAsync pending, the directory
\*           not made yet
\*   imade   init, called directly: makeDirectoryAsync has made the directory,
\*           its promise has not settled yet
\* errs counts the calls of this._onerror of the current call.  The other
\* fields observe the call: depth counts its nested this.peek() calls, seen is
\* the directory when it was made, fails counts the rejected FileSystem calls
\* other than the read of peek, readFails the rejected reads of peek,
\* parseFails the texts JSON.parse threw on, why is the reason of a removal,
\* raised whether the call rejected to its caller.
Null == [body |-> -1, retries |-> -1]

NoFiles == [f \in {} |-> Corrupt]

IdleClient == [pc |-> "idle", last |-> "none", id |-> NoName, payload |-> Null,
               errs |-> 0, depth |-> 0, seen |-> NoFiles, fails |-> 0,
               readFails |-> 0, parseFails |-> 0, why |-> "none",
               raised |-> FALSE]

\* a call returns to its caller; rejected is 1 when its last FileSystem call
\* rejected, reported is 1 when this._onerror was called
Return(op, id, payload, rejected, reported) ==
    client' = [client EXCEPT !.pc = "idle", !.last = op, !.id = id,
                             !.payload = payload, !.errs = @ + reported,
                             !.fails = @ + rejected]

peekCall ==
    /\ client.pc = "idle"
    /\ peeksLeft > 0
    /\ peeksLeft' = peeksLeft - 1
    /\ client' = [IdleClient EXCEPT !.pc = "plist", !.seen = files]
    /\ UNCHANGED <<files, dirExists, now, truncating, calls, faultsLeft,
                   ticksLeft, crashed, assigned, deletions, settled, failures>>

\* readDirectoryAsync resolves or rejects; payloads.filter(...).sort()[0]
peekList ==
    /\ client.pc = "plist"
    /\ \E ok \in Outcomes :
        /\ Spend(ok)
        /\ IF ~(ok /\ dirExists) THEN Return("peek", NoName, Null, 1, 1)
           ELSE IF Length(Queue) = 0 THEN Return("peek", NoName, Null, 0, 0)
           ELSE client' = [client EXCEPT !.pc = "pread", !.id = First(Queue)]
    /\ UNCHANGED <<files, dirExists, now, truncating, calls, ticksLeft,
                   crashed, assigned, deletions, peeksLeft, settled, failures>>

\* peekRead with the inner catch handing the error to this._onerror
peekReadReporting ==
    /\ client.pc = "pread"
    /\ \E ok \in Outcomes :
        /\ Spend(ok)
        /\ IF ~(ok /\ client.id \in DOMAIN files)
           THEN client' = [client EXCEPT !.pc = "pheal", !.why = "read",
                                         !.readFails = @ + 1]
           ELSE IF ~Parses(files[client.id])
           THEN client' = [client EXCEPT !.pc = "pheal", !.why = "parse",
                                         !.parseFails = @ + 1,
                                         !.errs = @ + 1]
           ELSE Return("peek", client.id, Parse(files[client.id]), 0, 0)
    /\ UNCHANGED <<files, dirExists, now, truncating, calls, ticksLeft,
                   crashed, assigned, deletions, peeksLeft, settled, failures>>

\* peekRead that throws on a record that has not been retried yet
peekReadStrict ==
    /\ client.pc = "pread"
    /\ \E ok \in Outcomes :
        /\ Spend(ok)
        /\ IF ~(ok /\ client.id \in DOMAIN files)
           THEN client' = [client EXCEPT !.pc = "pheal", !.why = "read",
                                         !.readFails = @ + 1]
           ELSE IF ~Parses(files[client.id]) \/ Parse(files[client.id]).retries = 0
           THEN client' = [client EXCEPT !.pc = "pheal", !.why = "parse",
                                         !.parseFails = @ + 1]
           ELSE Return("peek", client.id, Parse(files[client.id]), 0, 0)
    /\ UNCHANGED <<files, dirExists, now, truncating, calls, ticksLeft,
                   crashed, assigned, deletions, peeksLeft, settled, failures>>

\* readAsStringAsync(id) and JSON.parse: { id, payload } is returned, or the
\* inner catch issues this.remove(id)
peekRead ==
    /\ client.pc = "pread"
    /\ \E ok \in Outcomes :
        /\ Spend(ok)
        /\ IF ~(ok /\ client.id \in DOMAIN files)
           THEN client' = [client EXCEPT !.pc = "pheal", !.why = "read",
                                         !.readFails = @ + 1]
           ELSE IF ~Parses(files[client.id])
           THEN client' = [client EXCEPT !.pc = "pheal", !.why = "parse",
                                         !.parseFails = @ + 1]
           ELSE Return("peek", client.id, Parse(files[client.id]), 0, 0)
    /\ UNCHANGED <<files, dirExists, now, truncating, calls, ticksLeft,
                   crashed, assigned, deletions, peeksLeft, settled, failures>>

\* the remove(id) of the inner catch takes effect, then `return this.peek()`
peekHeal ==
    /\ client.pc = "pheal"
    /\ client.depth < MaxPeekDepth
    /\ \E ok \in Outcomes :
        /\ Spend(ok)
        /\ files' = removeFiles(client.id, ok)
        /\ deletions' = Deleted(client.id, ok, "peek", client.why)
        /\ client' = [client EXCEPT !.pc = "plist", !.id = NoName, !.why = "none",
                                    !.depth = @ + 1,
                                    !.errs = @ + removeErrors(client.id, ok),
                                    !.fails = @ + Rejections(client.id, ok)]
    /\ UNCHANGED <<dirExists, now, truncating, calls, ticksLeft, crashed, assigned, peeksLeft, settled, failures>>

\* ----------------------------------------------------------------- remove(id)
removeCall(id, why) ==
    client' = [IdleClient EXCEPT !.pc = "rdel", !.id = id, !.why = why, !.seen = files]

removeDelete ==
    /\ client.pc = "rdel"
    /\ \E ok \in Outcomes :
        /\ Spend(ok)
        /\ files' = removeFiles(client.id, ok)
        /\ deletions' = Deleted(client.id, ok, "remove", client.why)
        /\ Return("remove", client.id, Null, Rejections(client.id, ok),
                  removeErrors(client.id, ok))
    /\ UNCHANGED <<dirExists, now, truncating, calls, ticksLeft, crashed, assigned, peeksLeft, settled, failures>>

\* -------------------------------------------------------- update(id, updates)
updateCall(id, updates) ==
    client' = [IdleClient EXCEPT !.pc = "uread", !.id = id, !.payload = updates,
                                 !.seen = files]

\* updateRead taking a record it cannot read for an empty one
updateReadDefaulting ==
    /\ client.pc = "uread"
    /\ \E ok \in Outcomes :
        /\ Spend(ok)
        /\ IF ~(ok /\ client.id \in DOMAIN files)
           THEN client' = [client EXCEPT !.pc = "uwrite", !.fails = @ + 1,
                               !.payload = Merge(Null, client.payload)]
           ELSE IF ~Parses(files[client.id])
           THEN client' = [client EXCEPT !.pc = "idle", !.last = "update",
                                         !.payload = Null, !.errs = @ + 1,
                                         !.parseFails = @ + 1]
           ELSE client' = [client EXCEPT !.pc = "uwrite",
                               !.payload = Merge(Parse(files[client.id]), client.payload)]
    /\ UNCHANGED <<files, dirExists, now, truncating, calls, ticksLeft,
                   crashed, assigned, deletions, peeksLeft, settled, failures>>

\* readAsStringAsync(id) and JSON.parse; { ...payload, ...updates }; the
\* write is issued, or the catch reports
updateRead ==
    /\ client.pc = "uread"
    /\ \E ok \in Outcomes :
        /\ Spend(ok)
        /\ IF ~(ok /\ client.id \in DOMAIN files)
           THEN Return("update", client.id, Null, 1, 1)
           ELSE IF ~Parses(files[client.id])
           THEN client' = [client EXCEPT !.pc = "idle", !.last = "update",
                                         !.payload = Null, !.errs = @ + 1,
                                         !.parseFails = @ + 1]
           ELSE client' = [client EXCEPT !.pc = "uwrite",
                               !.payload = Merge(Parse(files[client.id]), client.payload)]
    /\ UNCHANGED <<files, dirExists, now, truncating, calls, ticksLeft,
                   crashed, assigned, deletions, peeksLeft, settled, failures>>

updateWrite ==
    /\ client.pc = "uwrite"
    /\ \E ok \in Outcomes :
        /\ Spend(ok)
        /\ IF ok /\ dirExists
           THEN /\ files' = WriteFile(client.id, Stringify(client.payload))
                /\ Return("update", client.id, Null, 0, 0)
           ELSE /\ Return("update", client.id, Null, 1, 1)
                /\ UNCHANGED files
    /\ UNCHANGED <<dirExists, now, truncating, calls, ticksLeft, crashed,
                   assigned, deletions, peeksLeft, settled, failures>>

\* ------------------------------------------------- init(), called directly
\* init() has no catch of its own: a rejection of getInfoAsync or of
\* makeDirectoryAsync rejects the promise init() returned.
Raise(op) ==
    client' = [client EXCEPT !.pc = "idle", !.last = op, !.fails = @ + 1,
                             !.raised = TRUE]

initCall ==
    /\ client.pc = "idle"
    /\ client.last = "none"
    /\ client' = [IdleClient EXCEPT !.pc = "iinfo", !.seen = files]
    /\ UNCHANGED <<files, dirExists, now, truncating, calls, faultsLeft, ticksLeft,
                   crashed, assigned, deletions, peeksLeft, settled, failures>>

initInfo ==
    /\ client.pc = "iinfo"
    /\ \E ok \in Outcomes :
        /\ Spend(ok)
        /\ IF ~ok THEN Raise("init")
           ELSE IF dirExists THEN Return("init", NoName, Null, 0, 0)
           ELSE client' = [client EXCEPT !.pc = "imkdir"]
    /\ UNCHANGED <<files, dirExists, now, truncating, calls, ticksLeft,
                   crashed, assigned, deletions, peeksLeft, settled, failures>>

initMakeDirectory ==
    /\ client.pc = "imkdir"
    /\ \E ok \in Outcomes :
        /\ Spend(ok)
        /\ IF ok THEN dirExists' = TRUE /\ client' = [client EXCEPT !.pc = "imade"]
           ELSE Raise("init") /\ UNCHANGED dirExists
    /\ UNCHANGED <<files, now, truncating, calls, ticksLeft, crashed, assigned,
                   deletions, peeksLeft, settled, failures>>

\* the promise of makeDirectoryAsync settles and init() returns
initReturn ==
    /\ client.pc = "imade"
    /\ Return("init", NoName, Null, 0, 0)
    /\ UNCHANGED <<files, dirExists, now, truncating, calls, faultsLeft, ticksLeft,
                   crashed, assigned, deletions, peeksLeft, settled, failures>>

\* --------------------------------------------------------------- environment
\* a millisecond passes
Tick ==
    /\ ticksLeft > 0
    /\ now' = now + 1
    /\ ticksLeft' = ticksLeft - 1
    /\ UNCHANGED <<files, dirExists, truncating, calls, client, faultsLeft,
                   crashed, assigned, deletions, peeksLeft, settled, failures>>

\* the process ends and is started again on the same directory: the
\* constructor runs, what was pending is lost, the directory is as it was
InFlight(pc) == pc \notin {"new", "done", "dead"}

\* constructor with a directory of its own for every process
constructorFreshDirectory ==
    /\ ~crashed
    /\ crashed' = TRUE
    /\ truncating' = FALSE
    /\ calls' = [c \in CallIds |->
                   IF InFlight(calls[c].pc)
                   THEN [calls[c] EXCEPT !.pc = "dead", !.snap = {}, !.pending = {}]
                   ELSE calls[c]]
    /\ client' = IdleClient
    /\ files' = NoFiles
    /\ dirExists' = FALSE
    /\ UNCHANGED <<now, faultsLeft, ticksLeft, peeksLeft, assigned, deletions,
                   settled, failures>>

constructor ==
    /\ ~crashed
    /\ crashed' = TRUE
    /\ truncating' = FALSE
    /\ calls' = [c \in CallIds |->
                   IF InFlight(calls[c].pc)
                   THEN [calls[c] EXCEPT !.pc = "dead", !.snap = {}, !.pending = {}]
                   ELSE calls[c]]
    /\ client' = IdleClient
    /\ UNCHANGED <<files, dirExists, now, faultsLeft, ticksLeft, peeksLeft, assigned,
                   deletions, settled, failures>>

\* ---------------------------------------------------------------- drain loop
\* The loop that delivers the queue: peek, hand the payload to the
\* transport, then remove it (Success, PermanentFailure) or update its
\* retries (RetryableFailure), then peek again.
DeliveryOutcomes == {"Success", "RetryableFailure", "PermanentFailure"}

\* one more RetryableFailure of the payload named id
Count(n, id) ==
    [f \in DOMAIN n \cup {id} |->
        IF f \in DOMAIN n THEN (IF f = id THEN n[f] + 1 ELSE n[f]) ELSE 1]

settle ==
    /\ client.pc = "idle"
    /\ client.last = "peek"
    /\ client.id # NoName
    /\ \E outcome \in DeliveryOutcomes :
        IF outcome = "RetryableFailure"
        THEN /\ client.payload.retries < MaxRetries
             /\ updateCall(client.id, [retries |-> client.payload.retries + 1])
             /\ failures' = Count(failures, client.id)
        ELSE removeCall(client.id, outcome) /\ UNCHANGED failures
    /\ settled' = settled \cup {client.id}
    /\ UNCHANGED <<files, dirExists, now, truncating, calls, faultsLeft,
                   ticksLeft, crashed, assigned, deletions, peeksLeft>>

\* a caller that calls remove once more on the id it has just removed
removeAgain ==
    /\ client.pc = "idle"
    /\ client.last = "remove"
    /\ client.why # "again"
    /\ removeCall(client.id, "again")
    /\ settled' = settled \cup {client.id}
    /\ UNCHANGED <<files, dirExists, now, truncating, calls, faultsLeft,
                   ticksLeft, crashed, assigned, deletions, peeksLeft, failures>>

\* a caller that calls update on the id it has just called remove with
updateStale ==
    /\ client.pc = "idle"
    /\ client.last = "remove"
    /\ updateCall(client.id, [retries |-> 1])
    /\ settled' = settled \cup {client.id}
    /\ UNCHANGED <<files, dirExists, now, truncating, calls, faultsLeft,
                   ticksLeft, crashed, assigned, deletions, peeksLeft, failures>>

\* ------------------------------------------------------------- initial states
\* The directory the constructor finds: n payload files written in the
\* milliseconds 1..n, those of `bad` unparseable, and possibly a file that
\* is not the queue's.
OtherFile == <<"other", 0, 0>>

Store(n, bad, other) ==
    [f \in {generateFilename(k, 0) : k \in 1..n} \cup (IF other THEN {OtherFile} ELSE {}) |->
        IF f = OtherFile \/ f[2] \in bad THEN Corrupt
        ELSE Stringify([body |-> 0, retries |-> 0])]

Min(a, b) == IF a < b THEN a ELSE b

InitWith(sizes, maxBad, others, faults, ticks, ncalls, restarts, peeks) ==
    /\ \E n \in sizes, other \in others, de \in BOOLEAN :
        \E bad \in SUBSET (1..Min(n, maxBad)) :
            /\ (n > 0 \/ other) => de
            /\ files = Store(n, bad, other)
            /\ dirExists = de
            /\ now = n
    /\ truncating = FALSE
    /\ calls = [c \in 1..ncalls |-> NewCall]
    /\ client = IdleClient
    /\ faultsLeft \in faults
    /\ ticksLeft = ticks
    /\ crashed = ~restarts
    /\ peeksLeft = peeks
    /\ assigned = <<>>
    /\ deletions = {}
    /\ settled = {}
    /\ failures = NoFiles

SmallStores == 0..MaxSmallStore

FullStores == {MAX_ITEMS - 1, MAX_ITEMS}

\* -------------------------------------------------------------- specifications
Producer ==
    \/ \E c \in CallIds : enqueue(c)
    \/ \E c \in CallIds : init(c)
    \/ \E c \in CallIds : makeDirectory(c)
    \/ \E c \in CallIds : enqueueResume(c)
    \/ \E c \in CallIds : enqueueWrite(c)
    \/ \E c \in CallIds : truncateCall(c)
    \/ \E c \in CallIds : truncateList(c)
    \/ \E c \in CallIds : truncateResume(c)
    \/ \E c \in CallIds : truncateCatch(c)
    \/ \E c \in CallIds : truncateRemove(c)
    \/ \E c \in CallIds : truncateDone(c)

Consumer ==
    \/ peekCall
    \/ peekList
    \/ peekRead
    \/ peekHeal
    \/ settle
    \/ removeDelete
    \/ updateRead
    \/ updateWrite
    \/ initCall
    \/ initInfo
    \/ initMakeDirectory
    \/ initReturn

\* producers only
Init == InitWith({0} \cup FullStores, 0, BOOLEAN, {MaxFaults}, MaxTicks, MaxCalls, FALSE, 0)

Next == Producer \/ Tick

Spec == Init /\ [][Next]_vars

\* a caller of peek, remove and update on a directory nothing else changes
InitApi == InitWith(SmallStores, MaxSmallStore, BOOLEAN, {MaxFaults}, 0, 0, FALSE, MaxPeeks)

NextApi == Consumer \/ removeAgain \/ updateStale

SpecApi == InitApi /\ [][NextApi]_vars

\* one enqueue call, the drain loop and a restart
InitDrain == InitWith({0, MAX_ITEMS}, 1, {FALSE}, {DrainFaults}, 0, 1, TRUE, DrainPeeks)

NextDrain == Producer \/ Consumer \/ constructor

SpecDrain == InitDrain /\ [][NextDrain]_vars

\* one enqueue call and the drain loop, on a directory that may hold a single
\* payload written in the current millisecond
InitReuse == InitWith({0, 1, MAX_ITEMS}, 0, {FALSE}, {DrainFaults}, 0, 1, FALSE, MaxPeeks)

NextReuse == Producer \/ Consumer

SpecReuse == InitReuse /\ [][NextReuse]_vars

\* enqueue calls alone, in one millisecond
InitPass == InitWith({0, MAX_ITEMS}, 0, {FALSE}, {PassFaults}, 0, PassCalls, FALSE, 0)

NextPass == Producer

SpecPass == InitPass /\ [][NextPass]_vars

\* two enqueue calls and the clock: both writes can land under fresh names
\* before a pass lists, so that a pass removes a batch of two or more; the
\* event loop runs every continuation that is ready and every FileSystem
\* call settles, while the clock is under no obligation
InitFair == InitWith({0, MAX_ITEMS}, 0, {FALSE}, {PassFaults}, MaxTicks, 2, FALSE, 0)

NextFair == NextPass \/ Tick

FairPass == InitFair /\ [][NextFair]_vars /\ WF_vars(NextPass)

\* -------------------------------------------------------------------- claims
\* nothing of any enqueue call is pending: every call was made and returned,
\* and every truncation pass it started has released the guard
Quiescent == ~truncating /\ \A c \in CallIds : calls[c].pc = "done"

\* no FileSystem call has rejected for a fault so far
NoFault(budget) == faultsLeft = budget

\* the names were generated in increasing string order
InOrder == \A i, j \in DOMAIN assigned : i < j => FilenameLess(assigned[i], assigned[j])

\* C1: FIFO.  Every name enqueue assigns sorts after all the names assigned
\* before it, so that peek (which takes the first name in string order)
\* returns the payloads in the order they were enqueued.
C1_IdsSortInEnqueueOrder == InOrder

\* C2: bounded size.  Once more than MAX_ITEMS payloads have been enqueued
\* (without a storage fault, none removed by delivery, names in enqueue
\* order) and every truncation pass has run to completion, the store holds
\* exactly MAX_ITEMS payloads, each newer than every payload evicted.
C2_ExactlyMaxItemsAfterTruncation ==
    (/\ Quiescent
     /\ NoFault(MaxFaults)
     /\ InOrder
     /\ Length(Queue) + Cardinality(deletions) > MAX_ITEMS)
    => /\ Length(Queue) = MAX_ITEMS
       /\ \A d \in deletions : \A f \in Queue : FilenameLess(d[1], f)

\* C3: at the moment a truncation pass completes and releases its guard
\* (no storage fault having occurred), at most MAX_ITEMS payloads are stored.
C3_BoundWhenPassCompletes ==
    [][(truncating /\ ~truncating' /\ NoFault(MaxFaults))
        => Length(SortedPayloads(DOMAIN files')) <= MAX_ITEMS]_vars

\* the oldest and the second oldest name of a set of names
Oldest(S) == CHOOSE a \in S : \A b \in S \ {a} : FilenameLess(a, b)

Second(S) == Oldest(S \ {Oldest(S)})

Returned(op) == client.pc = "idle" /\ client.last = op

\* C4, as claimed: a well-formed payload is deleted from the store only by a
\* remove that follows its successful or permanently failed delivery.
C4_DeletedOnlyAfterDelivery ==
    \A d \in deletions :
        d[4] => d[2] = "remove" /\ d[3] \in {"Success", "PermanentFailure"}

\* C4, amended: a well-formed payload is deleted only by a remove that follows
\* its successful or permanently failed delivery, by a truncation pass in
\* whose listing at least MAX_ITEMS payloads were newer, or by peek after the
\* read of the payload failed.
C4_DeletionCauses ==
    \A d \in deletions :
        d[4] => \/ d[2] = "remove" /\ d[3] \in {"Success", "PermanentFailure"}
                \/ d[2] = "truncate" /\ d[3] = "overflow"
                \/ d[2] = "peek" /\ d[3] = "read"

C4_Witness ==
    \E d, e \in deletions :
        /\ d[4] /\ d[2] = "truncate"
        /\ e[4] /\ e[2] \in {"remove", "peek"}

\* C5: crash-resume.  After a restart, a payload enqueue has written, that
\* neither remove nor update was called with and that was not deleted, is
\* in the store with the body and the retries (0) enqueue wrote; a peek
\* after the restart none of whose FileSystem calls rejects returns it when
\* it is the oldest well-formed payload, and a peek that returns its name
\* returns that body and retries 0.
Survives(c) ==
    /\ crashed
    /\ calls[c].written
    /\ calls[c].name \notin settled
    /\ \A d \in deletions : d[1] # calls[c].name

OldestValid(P, dir) ==
    \A f \in SortedPayloads(DOMAIN dir) : FilenameLess(f, P) => ~Parses(dir[f])

C5_CrashResume ==
    \A c \in CallIds :
        Survives(c) =>
            /\ calls[c].name \in DOMAIN files
            /\ files[calls[c].name] = <<c, 0>>
            /\ (/\ Returned("peek")
                /\ client.fails = 0 /\ client.readFails = 0
                /\ calls[c].name \in DOMAIN client.seen
                /\ OldestValid(calls[c].name, client.seen))
               => client.id = calls[c].name
            /\ (Returned("peek") /\ client.id = calls[c].name)
               => client.payload = [body |-> c, retries |-> 0]

C5_Witness ==
    \E c \in CallIds :
        /\ Survives(c)
        /\ calls[c].pc = "dead"
        /\ Returned("peek")
        /\ client.id = calls[c].name

\* C6: self-healing peek.  When peek is called on a directory whose oldest
\* payload is unparseable and whose second oldest is well-formed, and no
\* FileSystem call rejects, peek returns the second oldest payload and the
\* unparseable file is no longer in the directory.
HealCase ==
    LET Q0 == SortedPayloads(DOMAIN client.seen)
    IN  /\ Returned("peek")
        /\ client.fails = 0 /\ client.readFails = 0
        /\ Length(Q0) >= 2
        /\ ~Parses(client.seen[Oldest(Q0)])
        /\ Parses(client.seen[Second(Q0)])

C6_SelfHealingPeek ==
    LET Q0 == SortedPayloads(DOMAIN client.seen)
    IN  HealCase => /\ client.id = Second(Q0)
                    /\ client.payload = Parse(client.seen[Second(Q0)])
                    /\ Oldest(Q0) \notin DOMAIN files
                    /\ Second(Q0) \in DOMAIN files

C6_Witness == HealCase /\ client.depth = 1

\* C7: the number of nested peek calls of one peek is at most the length of
\* the queue when peek was called, whatever the FileSystem calls return.
C7_PeekRetriesBounded ==
    client.depth <= Length(SortedPayloads(DOMAIN client.seen))

\* the second of two remove calls with one id, the first of which deleted
\* the file, has returned
RemovedTwice ==
    /\ Returned("remove")
    /\ client.why = "again"
    /\ \E d \in deletions : d[1] = client.id /\ d[2] = "remove" /\ d[3] # "again"

\* C8, as claimed: the second remove of an id reports no failure and leaves
\* the store as it was.
C8_SecondRemoveSilent ==
    RemovedTwice => client.errs = 0 /\ files = client.seen

\* C8, amended: the second remove of an id returns normally and leaves the
\* store as it was; the rejection of its deleteAsync is handed to
\* this._onerror, once.
C8_SecondRemoveReported ==
    RemovedTwice => client.errs = 1 /\ files = client.seen

C8_Witness == RemovedTwice /\ faultsLeft = MaxFaults

UpdatedMissing == Returned("update") /\ client.id \notin DOMAIN client.seen

\* C11: update(id, updates) with an id whose file no longer exists calls
\* this._onerror once and leaves the directory as it was: no file is
\* created, changed or deleted.
C11_UpdateOfMissingRecord ==
    UpdatedMissing => client.errs = 1 /\ files = client.seen

C11_Witness ==
    /\ UpdatedMissing
    /\ \E d \in deletions : d[1] = client.id /\ d[2] = "remove"

\* C12: retry monotonicity.  While no FileSystem call rejects, a payload the
\* drain loop has handled K RetryableFailure outcomes for (an update of
\* retries to the peeked value plus one each time) and that has not been
\* removed is stored under the same name with retries = K, and a peek that
\* has returned returned that payload, with retries = K.
C12_RetryMonotonicity ==
    (NoFault(MaxFaults) /\ client.pc \notin {"uread", "uwrite"}) =>
        \A P \in DOMAIN failures :
            P \in DOMAIN files =>
                /\ Parses(files[P])
                /\ Parse(files[P]).retries = failures[P]
                /\ Parse(files[P]).body = 0
                /\ Returned("peek") =>
                      /\ client.id = P
                      /\ client.payload = [body |-> 0, retries |-> failures[P]]

C12_Witness ==
    /\ NoFault(MaxFaults)
    /\ Returned("update")
    /\ client.id \in DOMAIN failures
    /\ failures[client.id] = 2
    /\ client.id \in DOMAIN files
    /\ DOMAIN files = DOMAIN client.seen

\* the write of enqueue call c takes effect in this step
Writes(c) == calls[c].pc = "write" /\ calls'[c].written

\* C13: the text enqueue writes has retries 0 whatever the request held,
\* and no step lowers the retries stored under a name.
C13_RetriesNeverDecrease ==
    [][/\ \A c \in CallIds :
            Writes(c) => files'[calls[c].name] = <<c, 0>>
       /\ \A f \in DOMAIN files \cap DOMAIN files' :
            (Parses(files[f]) /\ Parses(files'[f]))
            => Parse(files'[f]).retries >= Parse(files[f]).retries]_vars

\* C14: no enqueue is assigned a name assigned before, and the name of a
\* write that is pending names no file in the directory, so that the write
\* adds an entry and replaces none.
C14_IdsUnique ==
    /\ \A i, j \in DOMAIN assigned : i # j => assigned[i] # assigned[j]
    /\ \A c \in CallIds : calls[c].pc = "write" => calls[c].name \notin DOMAIN files

\* the truncation pass enqueue call c started is in flight
InPass(c) == calls[c].pc \in {"tlist", "tlisted", "tfailed", "tremove"}

\* C15: enqueue calls this._truncate() after its write and does not await
\* it.  While the pass a call started is in flight the call has returned,
\* with its write done; a call whose write did not take effect returned from
\* its catch with that one failure reported and starts no pass; and a call
\* whose pass has ended, with or without failures, has returned with its
\* write done.
C15_EnqueueDoesNotAwaitTruncation ==
    \A c \in CallIds :
        /\ InPass(c) => calls[c].returned /\ calls[c].written
        /\ calls[c].pc \in {"info", "mkdir", "made", "write", "wrote"} => ~calls[c].returned
        /\ (calls[c].returned /\ ~calls[c].written) =>
              /\ calls[c].pc \in {"done", "dead"}
              /\ calls[c].fails = 1 /\ calls[c].errs = 1
        /\ calls[c].pc = "done" => calls[c].returned

C15_Witness ==
    \E c \in CallIds : calls[c].pc = "tremove" /\ calls[c].returned /\ truncating

\* enqueue call c moves in this step
Moves(c) == calls'[c] # calls[c]

\* C16: single-flight truncation.  At most one truncation pass is in flight
\* at any time, and this._truncating is set exactly while one is; a call of
\* this._truncate() made while a pass is in flight returns at once: it
\* lists nothing, removes nothing, leaves the guard alone and the call does
\* nothing later.
C16_SingleFlightTruncation ==
    [][/\ Cardinality({c \in CallIds : InPass(c)'}) <= 1
       /\ truncating' <=> \E c \in CallIds : InPass(c)'
       /\ \A c \in CallIds :
            /\ (calls[c].pc = "wrote" /\ Moves(c) /\ truncating) =>
                  /\ calls'[c].pc = "done" /\ calls'[c].skipped
                  /\ calls'[c].snap = {} /\ calls'[c].pending = {}
                  /\ files' = files /\ truncating' /\ deletions' = deletions
            /\ calls[c].skipped => ~Moves(c)]_vars

C16_Witness ==
    \E c, d \in CallIds :
        /\ calls[c].pc = "tremove"
        /\ calls[d].skipped
        /\ calls[d].name \in calls[c].snap

\* C17: a failure inside a truncation pass does not wedge truncation.  A
\* listing that rejects ends the pass with one call of this._onerror and
\* the guard released; a removal that rejects is reported and leaves the
\* pass in flight with the rest of its batch still to be removed, the
\* other removals of the batch deleting their files; a pass ends only when
\* every removal of its batch was tried, with every rejection reported
\* and no more overflow entries left than removals rejected, and releases
\* the guard; a call of this._truncate() that finds the guard free starts
\* a pass; and a guard that is set is released later.
C17_TruncationNeverWedges ==
    /\ [][\A c \in CallIds :
            /\ (calls[c].pc = "tfailed" /\ Moves(c)) =>
                  /\ calls'[c].pc = "done" /\ ~truncating'
                  /\ calls'[c].errs = calls[c].errs + 1
            /\ (calls[c].pc = "tremove" /\ calls'[c].pc = "tremove" /\ Moves(c)) =>
                  /\ truncating'
                  /\ \E f \in calls[c].pending :
                        /\ calls'[c].pending = calls[c].pending \ {f}
                        /\ \/ /\ f \in DOMAIN files /\ f \notin DOMAIN files'
                              /\ calls'[c].errs = calls[c].errs
                           \/ /\ files' = files
                              /\ calls'[c].errs = calls[c].errs + 1
                              /\ calls'[c].fails = calls[c].fails + 1
            /\ (calls[c].pc = "tremove" /\ calls'[c].pc = "done") =>
                  /\ ~truncating'
                  /\ calls[c].pending = {}
                  /\ calls[c].errs = calls[c].fails
                  /\ Cardinality(Overflow(calls[c].snap) \cap DOMAIN files)
                        <= calls[c].fails
            /\ (calls[c].pc = "wrote" /\ Moves(c) /\ ~truncating) =>
                  calls'[c].pc = "tlist" /\ truncating']_vars
    /\ truncating ~> ~truncating

\* the pass of call c removed a batch of two or more, one removal rejected
\* and reported, another deleted its file, the guard was released, and the
\* trigger of call d then started a pass, which has removed nothing yet
C17_Witness ==
    \E c, d \in CallIds :
        /\ calls[c].pc = "done" /\ calls[c].written /\ ~calls[c].skipped
        /\ calls[c].fails = 1 /\ calls[c].errs = 1
        /\ calls[d].pc = "tremove"
        /\ calls[d].pending = Overflow(calls[d].snap)
        /\ calls[d].fails = 0
        /\ \E x \in deletions : x[2] = "truncate" /\ x[3] = "overflow"

\* C18: no resurrection.  A name whose file was deleted (by remove, by a
\* truncation pass or by the healing of peek) names no file afterwards,
\* whatever an update in flight on that name does.
C18_NoResurrection ==
    \A d \in deletions : d[1] \notin DOMAIN files

\* C19, as claimed: peek deletes no file whose text is a well-formed record,
\* whatever FileSystem calls reject.
C19_PeekDeletesOnlyCorrupt ==
    \A d \in deletions : d[2] = "peek" => ~d[4]

\* C19, amended: peek deletes a file whose text is a well-formed record only
\* after the read of that file rejected; a peek none of whose reads
\* rejected leaves every well-formed record of the directory in place,
\* whatever its listings and deletes did.
C19_PeekDeletesValidOnlyAfterFailedRead ==
    /\ \A d \in deletions : (d[2] = "peek" /\ d[4]) => d[3] = "read"
    /\ (Returned("peek") /\ client.readFails = 0) =>
            \A f \in DOMAIN client.seen :
                Parses(client.seen[f]) => f \in DOMAIN files /\ files[f] = client.seen[f]

C19_Witness ==
    /\ Returned("peek")
    /\ client.id # NoName
    /\ \E d \in deletions : d[2] = "peek" /\ d[4] /\ d[3] = "read"
    /\ \E f \in DOMAIN client.seen : Parses(client.seen[f]) /\ f \in DOMAIN files

====
